---------------------------- MODULE Spec2Model ----------------------------
(***************************************************************************)
(* soSaver-frida: the module dumper (ModuleDumper), the memory scanner     *)
(* (MemoryScanner), the loader hook (LibraryLoaderHook) and the            *)
(* orchestrator (SoSaverApp), as a state machine.                          *)
(*                                                                         *)
(* The script runs on the host runtime's single JavaScript thread: every   *)
(* handler (script start, timer tick, probe, deferred task, a call of a    *)
(* public method) runs to completion before the next one starts, so every  *)
(* handler is one action.  What happens inside a handler is kept in        *)
(* trace, the per-module record of the dumper's operations in program      *)
(* order.                                                                  *)
(***************************************************************************)
EXTENDS Integers, Sequences, FiniteSets, TLC

VARIABLES
    dumpedModules,  \* ModuleDumper.dumpedModules: Set<string>
    trace,          \* per module name: the dumper's operations on it, in order
    apiCall,        \* the latest direct call of dumpModule: argument, result, effects
    skipped,        \* names for which a dumpModule call returned at "Already processed"
    started,        \* SoSaverApp.start() has run (hooks installed, interval timer set)
    hostModules,    \* names in the host's module list (Process.enumerateModules)
    hookedFunctions,\* LibraryLoaderHook.hookedFunctions: Set<string>
    interceptors,   \* per loader function: how many interceptions are attached to it
    libpath,        \* the libpath field the probes write and read through `this`
    invocations,    \* per target thread: the hooked loader call it is inside, if any
    timeouts,       \* deferred tasks set by setTimeout and not yet run (equal ones once)
    errors,         \* number of generic error messages sent (MessageSender.sendError)
    hostHidden,     \* names of images mapped in the host but absent from its module list
    scanCall,       \* the latest direct call of a MemoryScanner method: host met, result
    hookCall,       \* the latest direct call of hookLibraryLoader: argument, result
    readCall,       \* the latest direct call of isModuleDumped: argument, result
    snapshot        \* the Set a getter returned last, as its caller holds (and changes) it

dumperVars == <<dumpedModules, trace, skipped>>
hookVars == <<hookedFunctions, interceptors, libpath, invocations, timeouts>>
appVars == <<started, hostModules, hookVars, errors>>
scanVars == <<hostHidden, scanCall>>
readVars == <<hookCall, readCall, snapshot>>
directVars == <<scanVars, readVars>>
vars == <<dumpedModules, trace, apiCall, skipped, started, hostModules, hookedFunctions,
          interceptors, libpath, invocations, timeouts, errors, hostHidden, scanCall,
          hookCall, readCall, snapshot>>

(***************************************************************************)
(* Configuration constants and bounds.                                     *)
(***************************************************************************)
CHUNK_SIZE == 65536

\* The largest module and file sizes drawn are MaxChunks chunks long.
MaxChunks == 2

\* Enumeration failures that send a generic error are drawn until MaxErrors were sent.
MaxErrors == 2

Min(a, b) == IF a < b THEN a ELSE b

(***************************************************************************)
(* Module descriptors (Frida's Module: name, base, size, path).            *)
(* base NULL is the null pointer; path "" is an absent or empty path;      *)
(* sizeType is JavaScript's typeof of the size field.                      *)
(***************************************************************************)
LibA == "liba.so"
LibB == "libb.so"
PathA == "/data/app/liba.so"

\* NativePointer values, in the host's pointer notation.
NULL == "0x0"
BaseA == "0x7000"
BaseB == "0x40000"
BaseLinker == "0x100000"
OpaqueHandle == "0xdead"

Module(name, base, sizeType, size, path) ==
    [name |-> name, base |-> base, sizeType |-> sizeType, size |-> size, path |-> path]

\* Sizes with typeof 'number': negative, zero, below, at and above chunk multiples.
Sizes ==
    {-1, 0} \cup {k * CHUNK_SIZE : k \in 1..MaxChunks}
            \cup {k * CHUNK_SIZE + 1 : k \in 0..(MaxChunks - 1)}

\* Lengths File.readAllBytes can return; they are independent of the module's size.
FileLengths ==
    {0, MaxChunks * CHUNK_SIZE} \cup {k * CHUNK_SIZE + 1 : k \in 0..(MaxChunks - 1)}

\* Descriptors that pass the validation: LibA of every size, with and without a
\* path, and a second library, memory-only.
WellFormed ==
    {Module(LibA, BaseA, "number", s, p) : s \in Sizes, p \in {"", PathA}}
        \cup {Module(LibB, BaseB, "number", s, "") : s \in {0, CHUNK_SIZE + 1}}

\* Descriptors with an empty name, a null base or a size that is no number.
Malformed ==
    {Module(n, b, t, CHUNK_SIZE, PathA) :
        n \in {"", LibA}, b \in {NULL, BaseA}, t \in {"number", "string"}}
        \ {Module(LibA, BaseA, "number", CHUNK_SIZE, PathA)}

Descriptors == WellFormed \cup Malformed

Linker == "linker64"
PathLinker == "/system/bin/linker64"

\* A library image mapped by hand: the host's module list never holds it.
LibH == "libhidden.so"
BaseH == "0x900000"

ModuleNames == {LibA, LibB, Linker, LibH}

(***************************************************************************)
(* The host at the time of one dump: which offsets of the image cannot be  *)
(* read (readMemoryBytes throws or returns null there), and what           *)
(* File.readAllBytes gives: "throws", or a buffer of some length.          *)
(***************************************************************************)
ChunkOffsets(size) ==
    {k * CHUNK_SIZE : k \in {j \in 0..MaxChunks : j * CHUNK_SIZE < size}}

Host(unreadable, file) == [unreadable |-> unreadable, file |-> file]

FileResults == {[throws |-> TRUE, byteLength |-> 0]}
                  \cup {[throws |-> FALSE, byteLength |-> l] : l \in FileLengths}

(***************************************************************************)
(* Entries of trace: the outbound messages (MessageSender) and the         *)
(* dumper's other operations.                                              *)
(***************************************************************************)
SetAdd(name) == [type |-> "dumpedModules.add", module |-> name]

ReadMemory(name, offset, size, ok) ==
    [type |-> "readMemoryBytes", module |-> name, offset |-> offset, size |-> size, ok |-> ok]

\* ok: the call gave a non-empty buffer; byteLength: the length of what it gave.
ReadFile(name, path, ok, byteLength) ==
    [type |-> "File.readAllBytes", module |-> name, path |-> path, ok |-> ok,
     byteLength |-> byteLength]

sendModuleInfo(name, base, size, path) ==
    [type |-> "module_info", module |-> name, base |-> base, size |-> size, path |-> path]

\* pass is the extraction pass the chunk belongs to ("memory" or "file").
sendModuleChunk(name, offset, byteLength, pass) ==
    [type |-> "module_chunk", module |-> name, offset |-> offset,
     chunk_size |-> byteLength, pass |-> pass]

sendModuleComplete(name) == [type |-> "module_complete", module |-> name]

sendModuleError(name, error) ==
    [type |-> "module_error", module |-> name, error |-> error]

\* Process.findModuleByAddress(address) was called (it names no module).
Resolve(address) == [type |-> "findModuleByAddress", module |-> "", address |-> address]

MessageTypes == {"module_info", "module_chunk", "module_complete", "module_error", "error"}

IsMessage(e) == e.type \in MessageTypes
IsTerminal(e) == e.type \in {"module_complete", "module_error"}
IsRead(e) == e.type \in {"readMemoryBytes", "File.readAllBytes"}

\* What a call gives back: the new processed set, what it did, what it returned, and
\* the names it found already processed.
Outcome(dumped, events, ret, skip) ==
    [dumped |-> dumped, events |-> events, ret |-> ret, skip |-> skip]

(***************************************************************************)
(* ModuleDumper                                                            *)
(***************************************************************************)
\* isModuleDumped answering true for every name.
isModuleDumpedAlways(dumped, moduleName) == TRUE

isModuleDumped(dumped, moduleName) == moduleName \in dumped

\* A Set object a getter returns: the object the class keeps ("internal"), or a new
\* object with the same elements ("copy").
SetObject(object, elements) == [object |-> object, elements |-> elements]

\* getDumpedModules returning this.dumpedModules itself.
getDumpedModulesInternal(dumped) == SetObject("internal", dumped)

\* getDumpedModules: new Set(this.dumpedModules)
getDumpedModules(dumped) == SetObject("copy", dumped)

\* The loop of dumpFromFile advancing by one byte less than it sends.
RECURSIVE FileChunksOverlapping(_, _, _)
FileChunksOverlapping(module, byteLength, fileOffset) ==
    IF fileOffset < byteLength
    THEN <<sendModuleChunk(module.name, fileOffset,
                           Min(CHUNK_SIZE, byteLength - fileOffset), "file")>>
            \o FileChunksOverlapping(module, byteLength, fileOffset + CHUNK_SIZE - 1)
    ELSE <<>>

\* The loop of dumpFromFile from fileOffset on.
RECURSIVE FileChunks(_, _, _)
FileChunks(module, byteLength, fileOffset) ==
    IF fileOffset < byteLength
    THEN <<sendModuleChunk(module.name, fileOffset,
                           Min(CHUNK_SIZE, byteLength - fileOffset), "file")>>
            \o FileChunks(module, byteLength, fileOffset + CHUNK_SIZE)
    ELSE <<>>

\* dumpFromFile sending module_complete before the file's chunks.
dumpFromFileCompleteFirst(module, host) ==
    IF host.file.throws \/ host.file.byteLength = 0
    THEN [events |-> <<ReadFile(module.name, module.path, FALSE, 0),
                       sendModuleError(module.name, [cause |-> "file", offset |-> 0])>>,
          ret |-> FALSE]
    ELSE [events |-> <<ReadFile(module.name, module.path, TRUE, host.file.byteLength),
                       sendModuleComplete(module.name)>>
                        \o FileChunks(module, host.file.byteLength, 0),
          ret |-> TRUE]

\* dumpFromFile returning false on a failed read without sendModuleError.
dumpFromFileSilent(module, host) ==
    IF host.file.throws \/ host.file.byteLength = 0
    THEN [events |-> <<ReadFile(module.name, module.path, FALSE, 0)>>, ret |-> FALSE]
    ELSE [events |-> <<ReadFile(module.name, module.path, TRUE, host.file.byteLength)>>
                        \o FileChunks(module, host.file.byteLength, 0)
                        \o <<sendModuleComplete(module.name)>>,
          ret |-> TRUE]

\* dumpFromFile chunking the file buffer up to module.size, not fileData.byteLength.
dumpFromFileModuleSize(module, host) ==
    IF host.file.throws \/ host.file.byteLength = 0
    THEN [events |-> <<ReadFile(module.name, module.path, FALSE, 0),
                       sendModuleError(module.name, [cause |-> "file", offset |-> 0])>>,
          ret |-> FALSE]
    ELSE [events |-> <<ReadFile(module.name, module.path, TRUE, host.file.byteLength)>>
                        \o FileChunks(module, module.size, 0)
                        \o <<sendModuleComplete(module.name)>>,
          ret |-> TRUE]

\* dumpFromFile taking an empty buffer for a file with nothing to send.
dumpFromFileEmptyOk(module, host) ==
    IF host.file.throws
    THEN [events |-> <<ReadFile(module.name, module.path, FALSE, 0),
                       sendModuleError(module.name, [cause |-> "file", offset |-> 0])>>,
          ret |-> FALSE]
    ELSE [events |-> <<ReadFile(module.name, module.path, host.file.byteLength > 0,
                                host.file.byteLength)>>
                        \o FileChunks(module, host.file.byteLength, 0)
                        \o <<sendModuleComplete(module.name)>>,
          ret |-> TRUE]

dumpFromFile(module, host) ==
    IF host.file.throws \/ host.file.byteLength = 0
    THEN [events |-> <<ReadFile(module.name, module.path, FALSE, 0),
                       sendModuleError(module.name, [cause |-> "file", offset |-> 0])>>,
          ret |-> FALSE]
    ELSE [events |-> <<ReadFile(module.name, module.path, TRUE, host.file.byteLength)>>
                        \o FileChunks(module, host.file.byteLength, 0)
                        \o <<sendModuleComplete(module.name)>>,
          ret |-> TRUE]

\* What the loop of dumpModuleData has come to: returned says whether a return
\* statement inside the loop was reached (ret: what it returned), memoryReadOk is the
\* flag of that name when the loop is left.
Loop(events, returned, ret, memoryReadOk) ==
    [events |-> events, returned |-> returned, ret |-> ret, memoryReadOk |-> memoryReadOk]

\* The catch block of the loop: the flag is cleared, then the file is tried or the
\* failure is reported; both ways return.
CatchMemError(module, host, offset, currentChunkSize) ==
    IF module.path # ""
    THEN LET file == dumpFromFile(module, host) IN
         Loop(<<ReadMemory(module.name, offset, currentChunkSize, FALSE)>> \o file.events,
              TRUE, file.ret, FALSE)
    ELSE Loop(<<ReadMemory(module.name, offset, currentChunkSize, FALSE),
                sendModuleError(module.name, [cause |-> "memory", offset |-> offset])>>,
              TRUE, FALSE, FALSE)

\* The loop of dumpModuleData reading CHUNK_SIZE bytes at every offset.
RECURSIVE MemoryLoopUnclamped(_, _, _, _)
MemoryLoopUnclamped(module, host, offset, memoryReadOk) ==
    IF offset < module.size
    THEN IF offset \notin host.unreadable
         THEN [MemoryLoopUnclamped(module, host, offset + CHUNK_SIZE, memoryReadOk)
                  EXCEPT !.events =
                      <<ReadMemory(module.name, offset, CHUNK_SIZE, TRUE),
                        sendModuleChunk(module.name, offset, CHUNK_SIZE, "memory")>> \o @]
         ELSE CatchMemError(module, host, offset, CHUNK_SIZE)
    ELSE Loop(<<>>, FALSE, FALSE, memoryReadOk)

\* The loop of dumpModuleData trying the file whether or not the module has a path.
RECURSIVE MemoryLoopAlwaysFallback(_, _, _, _)
MemoryLoopAlwaysFallback(module, host, offset, memoryReadOk) ==
    IF offset < module.size
    THEN LET currentChunkSize == Min(CHUNK_SIZE, module.size - offset) IN
         IF offset \notin host.unreadable
         THEN [MemoryLoopAlwaysFallback(module, host, offset + CHUNK_SIZE, memoryReadOk)
                  EXCEPT !.events =
                      <<ReadMemory(module.name, offset, currentChunkSize, TRUE),
                        sendModuleChunk(module.name, offset, currentChunkSize, "memory")>>
                          \o @]
         ELSE LET file == dumpFromFile(module, host) IN
              Loop(<<ReadMemory(module.name, offset, currentChunkSize, FALSE)>>
                      \o file.events,
                   TRUE, file.ret, FALSE)
    ELSE Loop(<<>>, FALSE, FALSE, memoryReadOk)

\* The loop of dumpModuleData whose catch block, for a module without a path, clears
\* the flag and leaves the loop without reporting the failure.
RECURSIVE MemoryLoopBreak(_, _, _, _)
MemoryLoopBreak(module, host, offset, memoryReadOk) ==
    IF offset < module.size
    THEN LET currentChunkSize == Min(CHUNK_SIZE, module.size - offset) IN
         IF offset \notin host.unreadable
         THEN [MemoryLoopBreak(module, host, offset + CHUNK_SIZE, memoryReadOk)
                  EXCEPT !.events =
                      <<ReadMemory(module.name, offset, currentChunkSize, TRUE),
                        sendModuleChunk(module.name, offset, currentChunkSize, "memory")>>
                          \o @]
         ELSE IF module.path # ""
         THEN CatchMemError(module, host, offset, currentChunkSize)
         ELSE Loop(<<ReadMemory(module.name, offset, currentChunkSize, FALSE)>>,
                   FALSE, FALSE, FALSE)
    ELSE Loop(<<>>, FALSE, FALSE, memoryReadOk)

\* The loop of dumpModuleData from offset on, with the flag as it stands.
RECURSIVE MemoryLoop(_, _, _, _)
MemoryLoop(module, host, offset, memoryReadOk) ==
    IF offset < module.size
    THEN LET currentChunkSize == Min(CHUNK_SIZE, module.size - offset) IN
         IF offset \notin host.unreadable
         THEN [MemoryLoop(module, host, offset + CHUNK_SIZE, memoryReadOk)
                  EXCEPT !.events =
                      <<ReadMemory(module.name, offset, currentChunkSize, TRUE),
                        sendModuleChunk(module.name, offset, currentChunkSize, "memory")>>
                          \o @]
         ELSE CatchMemError(module, host, offset, currentChunkSize)
    ELSE Loop(<<>>, FALSE, FALSE, memoryReadOk)

\* What follows the loop when no return statement inside it was reached: module_complete
\* and true if the flag still stands, a bare `return false` if it does not.
AfterLoop(module, loop) ==
    IF loop.returned THEN [events |-> loop.events, ret |-> loop.ret]
    ELSE IF loop.memoryReadOk
    THEN [events |-> loop.events \o <<sendModuleComplete(module.name)>>, ret |-> TRUE]
    ELSE [events |-> loop.events, ret |-> FALSE]

\* dumpModuleData: the loop from offset 0 with the flag set, then what follows it.
dumpModuleData(module, host) == AfterLoop(module, MemoryLoop(module, host, 0, TRUE))

\* The validation without the check of module.base.
IsValidNoBase(module) ==
    /\ module.name # ""
    /\ module.sizeType = "number"

\* The validation of dumpModule: !module.name, !module.base, typeof module.size.
IsValid(module) ==
    /\ module.name # ""
    /\ module.base # NULL
    /\ module.sizeType = "number"

\* The body of dumpModule returning true for size 0 without sendModuleComplete.
ExtractNoCompleteForZero(module, host) ==
    IF module.size = 0
    THEN [events |-> <<sendModuleInfo(module.name, module.base, module.size, module.path)>>,
          ret |-> TRUE]
    ELSE LET data == dumpModuleData(module, host) IN
         [events |-> <<sendModuleInfo(module.name, module.base, module.size, module.path)>>
                        \o data.events,
          ret |-> data.ret]

\* The body of dumpModule reporting a module of size 0 as an error.
ExtractZeroAsFailure(module, host) ==
    IF module.size = 0
    THEN [events |-> <<sendModuleInfo(module.name, module.base, module.size, module.path),
                       sendModuleError(module.name, [cause |-> "memory", offset |-> 0])>>,
          ret |-> FALSE]
    ELSE LET data == dumpModuleData(module, host) IN
         [events |-> <<sendModuleInfo(module.name, module.base, module.size, module.path)>>
                        \o data.events,
          ret |-> data.ret]

\* The body of dumpModule once the name is found unprocessed.  Every host call that
\* can fail (readMemoryBytes, File.readAllBytes) sits in a try block of dumpModuleData
\* or dumpFromFile, and send() and the logger do not throw, so the catch block of
\* dumpModule itself is not entered.
Extract(module, host) ==
    IF module.size = 0
    THEN [events |-> <<sendModuleInfo(module.name, module.base, module.size, module.path),
                       sendModuleComplete(module.name)>>,
          ret |-> TRUE]
    ELSE LET data == dumpModuleData(module, host) IN
         [events |-> <<sendModuleInfo(module.name, module.base, module.size, module.path)>>
                        \o data.events,
          ret |-> data.ret]

\* dumpModule without the check of dumpedModules.has(module.name).
dumpModuleNoCheck(dumped, module, host) ==
    IF ~IsValid(module)
    THEN Outcome(dumped, <<>>, FALSE, {})
    ELSE LET x == Extract(module, host) IN
         Outcome(dumped \cup {module.name}, <<SetAdd(module.name)>> \o x.events, x.ret, {})

\* dumpModule marking the name as processed after the extraction, not before it.
dumpModuleLateAdd(dumped, module, host) ==
    IF ~IsValid(module)
    THEN Outcome(dumped, <<>>, FALSE, {})
    ELSE IF module.name \in dumped
    THEN Outcome(dumped, <<>>, TRUE, {module.name})
    ELSE LET x == Extract(module, host) IN
         Outcome(dumped \cup {module.name}, x.events \o <<SetAdd(module.name)>>, x.ret, {})

\* dumpModule taking the name out of dumpedModules again when the extraction fails.
dumpModuleRollback(dumped, module, host) ==
    IF ~IsValid(module)
    THEN Outcome(dumped, <<>>, FALSE, {})
    ELSE IF module.name \in dumped
    THEN Outcome(dumped, <<>>, TRUE, {module.name})
    ELSE LET x == Extract(module, host) IN
         Outcome(IF x.ret THEN dumped \cup {module.name} ELSE dumped,
                 <<SetAdd(module.name)>> \o x.events, x.ret, {})

dumpModule(dumped, module, host) ==
    IF ~IsValid(module)
    THEN Outcome(dumped, <<>>, FALSE, {})
    ELSE IF module.name \in dumped
    THEN Outcome(dumped, <<>>, TRUE, {module.name})
    ELSE LET x == Extract(module, host) IN
         Outcome(dumped \cup {module.name}, <<SetAdd(module.name)>> \o x.events, x.ret, {})

(***************************************************************************)
(* The host process: its module list, its executable ranges, its loader.   *)
(***************************************************************************)
\* The descriptor the host reports for each module of the process.
HostTable(n) ==
    CASE n = LibA -> Module(LibA, BaseA, "number", 2 * CHUNK_SIZE, PathA)
      [] n = LibB -> Module(LibB, BaseB, "number", CHUNK_SIZE + 1, "")
      [] n = Linker -> Module(Linker, BaseLinker, "number", CHUNK_SIZE, PathLinker)
      [] n = LibH -> Module(LibH, BaseH, "number", CHUNK_SIZE, "")

\* The order in which the host enumerates modules and ranges.
ModuleOrder == <<Linker, LibA, LibH, LibB>>

RECURSIVE Listed(_, _)
Listed(order, loaded) ==
    IF order = <<>> THEN <<>>
    ELSE (IF Head(order) \in loaded THEN <<HostTable(Head(order))>> ELSE <<>>)
            \o Listed(Tail(order), loaded)

\* Process.enumerateModules()
enumerateModules(loaded) == Listed(ModuleOrder, loaded)

ELFMagic == <<127, 69, 76, 70>>

\* header: the bytes readMemoryBytes(range.base, 4) gives (<<>>: none, it gave null or
\* threw); throws: the call that throws while the region is probed, if any.
Range(base, size, header, throws) ==
    [base |-> base, size |-> size, header |-> header, throws |-> throws]

\* What readMemoryBytes(range.base, 4) can give: the magic number, the magic number
\* with one byte changed, four other bytes, or nothing (<<>>: the read gave null).
Headers ==
    {ELFMagic, <<126, 69, 76, 70>>, <<127, 70, 76, 70>>, <<127, 69, 77, 70>>,
     <<127, 69, 76, 71>>, <<0, 0, 0, 0>>, <<>>}

\* Every image starts with the magic number.
AllELF == [n \in ModuleNames |-> ELFMagic]

\* At most one of the images named reads as something other than the magic number.
HeaderChoices(names) ==
    {AllELF} \cup {[AllELF EXCEPT ![n] = h] : n \in names, h \in Headers \ {ELFMagic}}

\* The images whose first bytes do not read as the magic number.
Unmatched(headerOf) == {n \in ModuleNames : headerOf[n] # ELFMagic}

\* The calls inside the try block of one region that can throw: the read of the first
\* bytes, the resolution of the module, and the check of what it resolved to.
ThrowPoints == {"readMemoryBytes", "findModuleByAddress", "includes"}

\* No call throws while any region is probed.
NoThrow == [n \in ModuleNames |-> "none"]

\* While the region of at most one of the images named is probed, one call throws.
ThrowChoices(names) ==
    {NoThrow} \cup {[NoThrow EXCEPT ![n] = t] : n \in names, t \in ThrowPoints}

\* The images in whose region some call throws.
Thrown(throwsOf) == {n \in ModuleNames : throwsOf[n] # "none"}

RECURSIVE RangesOf(_, _, _)
RangesOf(modules, headerOf, throwsOf) ==
    IF modules = <<>> THEN <<>>
    ELSE LET n == Head(modules).name IN
         <<Range(Head(modules).base, Head(modules).size,
                 IF throwsOf[n] = "readMemoryBytes" THEN <<>> ELSE headerOf[n],
                 throwsOf[n])>>
            \o RangesOf(Tail(modules), headerOf, throwsOf)

\* Process.enumerateRanges({protection: 'r-x'}): one range per mapped image, at its
\* base, whether or not the image is in the module list.
enumerateRanges(loaded, hidden, headerOf, throwsOf) ==
    RangesOf(Listed(ModuleOrder, loaded \cup hidden), headerOf, throwsOf)

\* Process.findModuleByAddress(address): the listed modules holding the address.
findModuleByAddress(loaded, address) ==
    {HostTable(n) : n \in {m \in loaded : HostTable(m).base = address}}

\* Process.findModuleByName(name): the listed modules of that name or path.
findModuleByName(loaded, name) ==
    {HostTable(n) : n \in {m \in loaded : HostTable(m).name = name \/ HostTable(m).path = name}}

\* String.includes('.so') on the strings of the model.
IncludesSo(s) == s \in {LibA, LibB, LibH, PathA}

\* The host states a dump of a handler can meet: all of the image readable, or one
\* unreadable chunk and, for a module with a path, its file missing, empty or whole.
HostsFor(module) ==
    {Host({}, [throws |-> TRUE, byteLength |-> 0])}
        \cup {Host({o}, f) :
                o \in ChunkOffsets(module.size),
                f \in (IF module.path # ""
                       THEN {[throws |-> TRUE, byteLength |-> 0],
                             [throws |-> FALSE, byteLength |-> 0],
                             [throws |-> FALSE, byteLength |-> module.size]}
                       ELSE {[throws |-> TRUE, byteLength |-> 0]})}

\* One host state per module a handler can dump: a listed, unprocessed library.
HostChoices(dumped, loaded) ==
    LET For(n) == IF n \in loaded \ dumped
                  THEN HostsFor(HostTable(n))
                  ELSE {Host({}, [throws |-> TRUE, byteLength |-> 0])}
    IN {[n \in ModuleNames |-> IF n = LibA THEN a ELSE b] : a \in For(LibA), b \in For(LibB)}

\* The host states the dumps of a handler can meet: any of HostChoices if reads of
\* memory can fail (faults), or else the host in which every read succeeds.
HostsMet(faults, dumped, loaded) ==
    IF faults
    THEN HostChoices(dumped, loaded)
    ELSE {[n \in ModuleNames |-> Host({}, [throws |-> TRUE, byteLength |-> 0])]}

\* What a pass over an enumeration has done so far.
Pass(dumped, events, count, skip) ==
    [dumped |-> dumped, events |-> events, count |-> count, skip |-> skip]

(***************************************************************************)
(* MemoryScanner                                                           *)
(***************************************************************************)
\* The check of the magic number comparing the first three bytes only.
IsELFHeaderThreeBytes(headerBytes) ==
    /\ headerBytes[1] = 127
    /\ headerBytes[2] = 69
    /\ headerBytes[3] = 76

\* The check of headerBytes[0..3] against 0x7f, 0x45, 0x4c, 0x46.
IsELFHeader(headerBytes) ==
    /\ headerBytes[1] = 127
    /\ headerBytes[2] = 69
    /\ headerBytes[3] = 76
    /\ headerBytes[4] = 70

\* What the callback of ranges.forEach does with one range: every return and every
\* exception caught by its try block ends the callback, and nothing else.
ProbeRange(acc, range, loaded, hostOf) ==
    LET found == findModuleByAddress(loaded, range.base)
        resolved == Pass(acc.dumped, Append(acc.events, Resolve(range.base)),
                         acc.count, acc.skip)
    IN IF range.base = NULL \/ range.size < 4 THEN acc
       ELSE IF range.throws = "readMemoryBytes" THEN acc
       ELSE IF range.header = <<>> THEN acc
       ELSE IF ~IsELFHeader(range.header) THEN acc
       ELSE IF range.throws = "findModuleByAddress" THEN resolved
       ELSE IF found = {} THEN resolved
       ELSE LET mod == CHOOSE m \in found : TRUE IN
            IF range.throws = "includes" THEN resolved
            ELSE IF mod.name # "" /\ IncludesSo(mod.name)
                       /\ ~isModuleDumped(acc.dumped, mod.name)
            THEN LET out == dumpModule(acc.dumped, mod, hostOf[mod.name]) IN
                 Pass(out.dumped, resolved.events \o out.events,
                      acc.count + (IF out.ret THEN 1 ELSE 0),
                      acc.skip \cup out.skip)
            ELSE resolved

\* ranges.forEach with one try block around the whole loop: the first exception ends
\* the pass.
RECURSIVE ForEachRangeOneTry(_, _, _, _)
ForEachRangeOneTry(acc, ranges, loaded, hostOf) ==
    IF ranges = <<>> THEN acc
    ELSE IF Head(ranges).throws # "none" THEN acc
    ELSE CHOOSE r \in {ForEachRangeOneTry(v, Tail(ranges), loaded, hostOf) :
                         v \in {ProbeRange(acc, Head(ranges), loaded, hostOf)}} : TRUE

RECURSIVE ForEachRange(_, _, _, _)
ForEachRange(acc, ranges, loaded, hostOf) ==
    IF ranges = <<>> THEN acc
    \* (v: what the callback leaves, computed once and handed on)
    ELSE CHOOSE r \in {ForEachRange(v, Tail(ranges), loaded, hostOf) :
                         v \in {ProbeRange(acc, Head(ranges), loaded, hostOf)}} : TRUE

\* scanMemoryForELF catching a failed enumeration without sendError.
scanMemoryForELFSilent(dumped, loaded, hidden, enumThrows, headerOf, throwsOf, hostOf) ==
    IF enumThrows
    THEN [dumped |-> dumped, events |-> <<>>, count |-> 0, skip |-> {}, sent |-> 0]
    ELSE LET p == ForEachRange(Pass(dumped, <<>>, 0, {}),
                               enumerateRanges(loaded, hidden, headerOf, throwsOf),
                               loaded, hostOf)
         IN [dumped |-> p.dumped, events |-> p.events, count |-> p.count,
             skip |-> p.skip, sent |-> 0]

\* enumThrows: Process.enumerateRanges throws.  sent counts the generic errors sent.
\* headerOf: what the first four bytes of each image read as during this pass;
\* throwsOf: the call that throws while the region of each image is probed.
scanMemoryForELF(dumped, loaded, hidden, enumThrows, headerOf, throwsOf, hostOf) ==
    IF enumThrows
    THEN [dumped |-> dumped, events |-> <<>>, count |-> 0, skip |-> {}, sent |-> 1]
    ELSE LET p == ForEachRange(Pass(dumped, <<>>, 0, {}),
                               enumerateRanges(loaded, hidden, headerOf, throwsOf),
                               loaded, hostOf)
         IN [dumped |-> p.dumped, events |-> p.events, count |-> p.count,
             skip |-> p.skip, sent |-> 0]

\* The forEach of scanForNewModules.  Its callback has no try block of its own: an
\* exception raised in it (throwsOf: by the check of the module's name) leaves forEach
\* and is caught by the try block around the enumeration, with what was counted so far.
RECURSIVE ForEachModule(_, _, _, _)
ForEachModule(acc, modules, throwsOf, hostOf) ==
    IF modules = <<>> THEN acc
    ELSE LET module == Head(modules)
             next ==
                 IF IncludesSo(module.name) /\ ~isModuleDumped(acc.dumped, module.name)
                 THEN LET out == dumpModule(acc.dumped, module, hostOf[module.name]) IN
                      Pass(out.dumped, acc.events \o out.events,
                           acc.count + (IF out.ret THEN 1 ELSE 0),
                           acc.skip \cup out.skip)
                 ELSE acc
         IN IF throwsOf[module.name] = "includes" THEN acc
            \* (v: the value of next, computed once and handed on)
            ELSE CHOOSE r \in {ForEachModule(v, Tail(modules), throwsOf, hostOf) :
                                 v \in {next}} : TRUE

\* enumThrows: Process.enumerateModules throws (caught and logged).
\* throwsOf: the call that throws while each module is handled.
scanForNewModules(dumped, loaded, enumThrows, throwsOf, hostOf) ==
    IF enumThrows
    THEN Pass(dumped, <<>>, 0, {})
    ELSE ForEachModule(Pass(dumped, <<>>, 0, {}), enumerateModules(loaded), throwsOf, hostOf)

(***************************************************************************)
(* LibraryLoaderHook                                                       *)
(***************************************************************************)
LoaderFunctions == {"dlopen", "android_dlopen_ext"}

\* Module.findExportByName and Interceptor.attach, per function.
ExportResults == {"not found", "attach throws", "attached"}

Threads == {"t1", "t2"}

NullPath == "null"
PathOther == "/data/app/base.apk"

\* First arguments of a loader call: a null pointer, or a pointer to a path.
LoaderArgs == {NullPath, PathA, PathOther}

\* What a loader call returns: null, a handle that is an address inside libb.so, or
\* a handle that is no address of any module.
LoaderReturns == {NULL, BaseB, OpaqueHandle}

NoInvocation == [inside |-> FALSE]

Timeout(path, retval) == [path |-> path, retval |-> retval]

\* getHookedFunctions: new Set(this.hookedFunctions)
getHookedFunctions(hooked) == SetObject("copy", hooked)

\* hookLibraryLoader without the check of hookedFunctions.has(functionName).
hookLibraryLoaderNoCheck(hooked, attached, functionName, export) ==
    IF export = "not found"
    THEN [hooked |-> hooked, attached |-> attached, ret |-> FALSE]
    ELSE IF export = "attach throws"
    THEN [hooked |-> hooked, attached |-> attached, ret |-> FALSE]
    ELSE [hooked |-> hooked \cup {functionName},
          attached |-> [attached EXCEPT ![functionName] = @ + 1],
          ret |-> TRUE]

hookLibraryLoader(hooked, attached, functionName, export) ==
    IF functionName \in hooked
    THEN [hooked |-> hooked, attached |-> attached, ret |-> TRUE]
    ELSE IF export = "not found"
    THEN [hooked |-> hooked, attached |-> attached, ret |-> FALSE]
    ELSE IF export = "attach throws"
    THEN [hooked |-> hooked, attached |-> attached, ret |-> FALSE]
    ELSE [hooked |-> hooked \cup {functionName},
          attached |-> [attached EXCEPT ![functionName] = @ + 1],
          ret |-> TRUE]

\* onEnter: arg is the first argument, readable says whether readCString succeeds.
onEnter(arg, readable) ==
    IF arg # NullPath /\ readable THEN arg ELSE NullPath

\* onLeave: the deferred tasks it sets, given the path it reads and the return value.
onLeave(path, retval) ==
    IF path # NullPath /\ IncludesSo(path) /\ retval # NULL
    THEN {Timeout(path, retval)}
    ELSE {}

\* The setTimeout callback of onLeave.
deferredTask(dumped, loaded, task, hostOf) ==
    LET byName == findModuleByName(loaded, task.path)
        found == IF byName # {} THEN byName ELSE findModuleByAddress(loaded, task.retval)
    IN IF found # {}
       THEN LET module == CHOOSE m \in found : TRUE IN
            dumpModule(dumped, module, hostOf[module.name])
       ELSE Outcome(dumped, <<>>, FALSE, {})

(***************************************************************************)
(* SoSaverApp                                                              *)
(***************************************************************************)
RECURSIVE InitialForEach(_, _, _)
InitialForEach(acc, modules, hostOf) ==
    IF modules = <<>> THEN acc
    ELSE LET module == Head(modules)
             next ==
                 IF IncludesSo(module.name)
                 THEN LET out == dumpModule(acc.dumped, module, hostOf[module.name]) IN
                      Pass(out.dumped, acc.events \o out.events, 0, acc.skip \cup out.skip)
                 ELSE acc
         \* (v: the value of next, computed once and handed on)
         IN CHOOSE r \in {InitialForEach(v, Tail(modules), hostOf) : v \in {next}} : TRUE

performInitialModuleDump(dumped, loaded, enumThrows, hostOf) ==
    IF enumThrows
    THEN [dumped |-> dumped, events |-> <<>>, skip |-> {}, sent |-> 1]
    ELSE LET p == InitialForEach(Pass(dumped, <<>>, 0, {}), enumerateModules(loaded), hostOf)
         IN [dumped |-> p.dumped, events |-> p.events, skip |-> p.skip, sent |-> 0]

\* exports: what resolving and attaching gives for each loader function.
setupLibraryHooks(hooked, attached, exports) ==
    LET first == hookLibraryLoader(hooked, attached, "dlopen", exports["dlopen"]) IN
    hookLibraryLoader(first.hooked, first.attached, "android_dlopen_ext",
                      exports["android_dlopen_ext"])

(***************************************************************************)
(* Recording what a handler did.                                           *)
(***************************************************************************)
\* Every event is appended to the record of the module it names, if it names one.
Record(tr, events) ==
    [n \in DOMAIN tr |-> tr[n] \o SelectSeq(events, LAMBDA e : e.module = n)]

NoCall == [called |-> FALSE]

NoScan == [called |-> FALSE]

\* No getter has been called yet.
NoSnapshot == [of |-> "none"]

(***************************************************************************)
(* A direct call of the public method dumpModule.                          *)
(***************************************************************************)
DumpCall(module, host) ==
    LET out == dumpModule(dumpedModules, module, host) IN
    /\ dumpedModules' = out.dumped
    /\ trace' = Record(trace, out.events)
    /\ skipped' = skipped \cup out.skip
    /\ apiCall' = [called |-> TRUE, module |-> module, ret |-> out.ret,
                   before |-> dumpedModules, events |-> out.events]
    /\ UNCHANGED <<appVars, directVars>>

\* The host met by the call: the image readable, or unreadable at one chunk.
CallDumpOf(descriptors) ==
    \E module \in descriptors :
        \E unreadable \in {{}} \cup {{o} : o \in ChunkOffsets(module.size)} :
            \E file \in (IF unreadable # {} /\ module.path # "" THEN FileResults
                         ELSE {[throws |-> TRUE, byteLength |-> 0]}) :
                DumpCall(module, Host(unreadable, file))

CallDump == CallDumpOf(Descriptors)

\* The state after `new SoSaverApp()`: both registries empty, nothing sent.
Constructed ==
    /\ dumpedModules = {}
    /\ trace = [n \in ModuleNames |-> <<>>]
    /\ apiCall = NoCall
    /\ skipped = {}
    /\ started = FALSE
    /\ hookedFunctions = {}
    /\ interceptors = [f \in LoaderFunctions |-> 0]
    /\ libpath = NullPath
    /\ invocations = [t \in Threads |-> NoInvocation]
    /\ timeouts = {}
    /\ errors = 0
    /\ hostHidden = {}
    /\ scanCall = NoScan
    /\ hookCall = NoCall
    /\ readCall = NoCall
    /\ snapshot = NoSnapshot

Init ==
    /\ Constructed
    /\ hostModules = {Linker}

NextDump == CallDump

\* The public method dumpModule alone, on descriptors of every shape.
SpecDump == Init /\ [][NextDump]_vars

(***************************************************************************)
(* The handlers of the running script, and the host's own steps.           *)
(***************************************************************************)
\* The host loads a library (before or after the script starts).
HostLoad ==
    \E n \in {LibA, LibB} \ hostModules :
        /\ hostModules' = hostModules \cup {n}
        /\ UNCHANGED <<dumperVars, apiCall, directVars, started, hookVars, errors>>

\* app.start(): initial enumeration, hook installation, interval timer.
\* faults: reads of memory can fail during the handler.
StartIn(faults) ==
    /\ ~started
    /\ \E enumThrows \in {b \in BOOLEAN : b => errors < MaxErrors},
          exports \in [LoaderFunctions -> ExportResults],
          hostOf \in HostsMet(faults, dumpedModules, hostModules) :
        \E initial \in {performInitialModuleDump(dumpedModules, hostModules, enumThrows,
                                                 hostOf)},
           hooks \in {setupLibraryHooks(hookedFunctions, interceptors, exports)} :
           /\ started' = TRUE
           /\ dumpedModules' = initial.dumped
           /\ trace' = Record(trace, initial.events)
           /\ skipped' = skipped \cup initial.skip
           /\ errors' = errors + initial.sent
           /\ hookedFunctions' = hooks.hooked
           /\ interceptors' = hooks.attached
           /\ UNCHANGED <<apiCall, directVars, hostModules, libpath, invocations, timeouts>>

Start == StartIn(TRUE)

\* The setInterval callback: scanForNewModules, then scanMemoryForELF.
\* modulesThrow: Process.enumerateModules throws in this tick; faults: reads of memory
\* can fail during it, and so can the check of a name and the calls that probe a
\* region (of an unprocessed library: a module that is processed is passed over anyway,
\* and a region is probed for a library only if the first scan has left it unprocessed).
Tick(modulesThrow, faults) ==
    /\ started
    /\ \E rangesThrow \in {b \in BOOLEAN : b => errors < MaxErrors},
          hostOf \in HostsMet(faults, dumpedModules, hostModules),
          throwsOf \in (IF ~faults THEN {NoThrow}
                        ELSE IF modulesThrow
                        THEN ThrowChoices(hostModules \ (dumpedModules \cup {Linker}))
                        ELSE {t \in ThrowChoices(hostModules \ (dumpedModules \cup {Linker})) :
                                 \A n \in ModuleNames : t[n] \in {"none", "includes"}}) :
        \E known \in {scanForNewModules(dumpedModules, hostModules, modulesThrow, throwsOf,
                                        hostOf)} :
        \E elf \in {scanMemoryForELF(known.dumped, hostModules, hostHidden, rangesThrow,
                                     AllELF, throwsOf, hostOf)} :
           /\ dumpedModules' = elf.dumped
           /\ trace' = Record(trace, known.events \o elf.events)
           /\ skipped' = skipped \cup known.skip \cup elf.skip
           /\ errors' = errors + elf.sent
           /\ UNCHANGED <<apiCall, directVars, started, hostModules, hookVars>>

PeriodicScan == \E modulesThrow \in BOOLEAN : Tick(modulesThrow, TRUE)

\* A target thread enters a hooked loader function: the entry probe runs.
LoaderEnter ==
    \E t \in Threads, f \in LoaderFunctions, arg \in LoaderArgs, readable \in BOOLEAN :
        /\ interceptors[f] > 0
        /\ ~invocations[t].inside
        /\ libpath' = onEnter(arg, readable)
        /\ invocations' = [invocations EXCEPT ![t] =
               [inside |-> TRUE, captured |-> onEnter(arg, readable)]]
        /\ UNCHANGED <<dumperVars, apiCall, directVars, started, hostModules, hookedFunctions,
                       interceptors, timeouts, errors>>

\* The loader function returns on a thread, with one of the values given: the exit
\* probe runs.
LoaderLeaveWith(returns) ==
    \E t \in Threads, retval \in returns :
        /\ invocations[t].inside
        /\ timeouts' = timeouts \cup onLeave(libpath, retval)
        /\ invocations' = [invocations EXCEPT ![t] = NoInvocation]
        /\ UNCHANGED <<dumperVars, apiCall, directVars, started, hostModules, hookedFunctions,
                       interceptors, libpath, errors>>

LoaderLeave == LoaderLeaveWith(LoaderReturns)

\* A deferred task set by an exit probe runs.
\* faults: reads of memory can fail during the handler.
RunTimeoutIn(faults) ==
    \E task \in timeouts, hostOf \in HostsMet(faults, dumpedModules, hostModules) :
        LET out == deferredTask(dumpedModules, hostModules, task, hostOf) IN
        /\ timeouts' = timeouts \ {task}
        /\ dumpedModules' = out.dumped
        /\ trace' = Record(trace, out.events)
        /\ skipped' = skipped \cup out.skip
        /\ UNCHANGED <<apiCall, directVars, started, hostModules, hookedFunctions, interceptors,
                       libpath, invocations, errors>>

RunTimeout == RunTimeoutIn(TRUE)

Next ==
    \/ HostLoad
    \/ Start
    \/ PeriodicScan
    \/ LoaderEnter
    \/ LoaderLeave
    \/ RunTimeout

\* The script in the target process.
Spec == Init /\ [][Next]_vars

\* The handlers of the script's own schedule in a host where every read of memory
\* succeeds.  A name is claimed before the first read of its dump, so whether reads
\* fail has no bearing on which names get claimed, and when.
NextLive ==
    \/ HostLoad
    \/ StartIn(FALSE)
    \/ Tick(FALSE, FALSE)
    \/ Tick(TRUE, FALSE)

\* The script in a host that runs what is due: the script's entry point calls
\* start(), and the interval timer keeps firing ticks whose module enumeration works.
SpecLive ==
    /\ Init
    /\ [][NextLive]_vars
    /\ WF_vars(StartIn(FALSE))
    /\ WF_vars(Tick(FALSE, FALSE))

\* What a loader call returns in a host whose linker keeps the records its handles
\* point to inside its own image: null, or an address inside the linker's image.
LinkerHandles == {NULL, BaseLinker}

\* Every way the script comes to call dumpModule (initial enumeration, the two scans
\* of the timer tick, the deferred task of the loader hook), in a host where every
\* read of memory succeeds.
NextDiscovery ==
    \/ HostLoad
    \/ StartIn(FALSE)
    \/ Tick(FALSE, FALSE)
    \/ Tick(TRUE, FALSE)
    \/ LoaderEnter
    \/ LoaderLeaveWith(LinkerHandles)
    \/ RunTimeoutIn(FALSE)

SpecDiscovery == Init /\ [][NextDiscovery]_vars

(***************************************************************************)
(* Direct calls of the MemoryScanner's public methods, in a host that also *)
(* holds an image mapped by hand.                                          *)
(***************************************************************************)
\* An image is mapped without the loader: it gets no entry in the module list.
HostMap ==
    \E n \in {LibH} \ hostHidden :
        /\ hostHidden' = hostHidden \cup {n}
        /\ UNCHANGED <<dumperVars, apiCall, scanCall, appVars, readVars>>

\* scanMemoryForELF(), whatever the first bytes of the mapped images read as and
\* whichever call throws while a region is probed.
CallScanMemoryForELF ==
    \E enumThrows \in {b \in BOOLEAN : b => errors < MaxErrors} :
    \E headerOf \in (IF enumThrows THEN {AllELF} ELSE HeaderChoices(hostModules \ {Linker})) :
    \E throwsOf \in (IF enumThrows \/ headerOf # AllELF THEN {NoThrow}
                     ELSE ThrowChoices(hostModules \ {Linker})) :
    \E hostOf \in HostChoices(IF enumThrows THEN hostModules ELSE dumpedModules,
                              hostModules \ (Unmatched(headerOf) \cup Thrown(throwsOf))) :
    \E out \in {scanMemoryForELF(dumpedModules, hostModules, hostHidden, enumThrows,
                                  headerOf, throwsOf, hostOf)} :
           /\ dumpedModules' = out.dumped
           /\ trace' = Record(trace, out.events)
           /\ skipped' = skipped \cup out.skip
           /\ errors' = errors + out.sent
           /\ scanCall' = [called |-> TRUE, method |-> "scanMemoryForELF",
                           before |-> dumpedModules, enumThrows |-> enumThrows,
                           ranges |-> IF enumThrows THEN <<>>
                                      ELSE enumerateRanges(hostModules, hostHidden, headerOf,
                                                           throwsOf),
                           thrown |-> Thrown(throwsOf), count |-> out.count,
                           events |-> out.events, sent |-> out.sent]
           /\ UNCHANGED <<apiCall, started, hostModules, hookVars, hostHidden, readVars>>

\* scanForNewModules(), with or without an exception while a library is handled.
CallScanForNewModules ==
    \E enumThrows \in BOOLEAN :
    \E throwsOf \in (IF enumThrows THEN {NoThrow}
                     ELSE {t \in ThrowChoices(hostModules \ {Linker}) :
                             \A n \in ModuleNames : t[n] \in {"none", "includes"}}) :
    \E hostOf \in HostChoices(IF enumThrows THEN hostModules ELSE dumpedModules, hostModules) :
    \E out \in {scanForNewModules(dumpedModules, hostModules, enumThrows, throwsOf,
                                   hostOf)} :
        /\ dumpedModules' = out.dumped
        /\ trace' = Record(trace, out.events)
        /\ skipped' = skipped \cup out.skip
        /\ scanCall' = [called |-> TRUE, method |-> "scanForNewModules",
                        before |-> dumpedModules, enumThrows |-> enumThrows,
                        modules |-> IF enumThrows THEN <<>>
                                    ELSE enumerateModules(hostModules),
                        ranges |-> <<>>, thrown |-> Thrown(throwsOf), count |-> out.count,
                        events |-> out.events, sent |-> 0]
        /\ UNCHANGED <<apiCall, appVars, hostHidden, readVars>>

NextScan ==
    \/ HostLoad
    \/ HostMap
    \/ CallScanMemoryForELF
    \/ CallScanForNewModules

\* The MemoryScanner alone, called directly.
SpecScan == Init /\ [][NextScan]_vars

(***************************************************************************)
(* Direct calls of hookLibraryLoader, and the target's threads calling the *)
(* hooked loader functions.                                                *)
(***************************************************************************)
\* hookLibraryLoader(functionName), whatever resolving and attaching gives this time.
CallHookLibraryLoader ==
    \E functionName \in LoaderFunctions, export \in ExportResults :
        LET out == hookLibraryLoader(hookedFunctions, interceptors, functionName, export) IN
        /\ hookedFunctions' = out.hooked
        /\ interceptors' = out.attached
        /\ hookCall' = [called |-> TRUE, functionName |-> functionName, export |-> export,
                        ret |-> out.ret, before |-> hookedFunctions,
                        attachedBefore |-> interceptors]
        /\ UNCHANGED <<dumperVars, apiCall, started, hostModules, libpath, invocations,
                       timeouts, errors, scanVars, readCall, snapshot>>

NextHook ==
    \/ CallHookLibraryLoader
    \/ LoaderEnter
    \/ LoaderLeave

\* The LibraryLoaderHook alone: hook calls and probes, no deferred task run yet.
SpecHook == Init /\ [][NextHook]_vars

(***************************************************************************)
(* Direct calls of the read-only methods, between calls of dumpModule and  *)
(* hookLibraryLoader, by a caller that changes the Sets it was given.      *)
(***************************************************************************)
\* Descriptors of images of size 0: their dump reads nothing.
EmptyImages == {module \in WellFormed : module.size = 0 /\ module.path = ""}

\* isModuleDumped(moduleName)
CallIsModuleDumped ==
    \E moduleName \in {LibA, LibB} :
        /\ readCall' = [called |-> TRUE, moduleName |-> moduleName,
                        ret |-> isModuleDumped(dumpedModules, moduleName)]
        /\ UNCHANGED <<dumperVars, apiCall, appVars, scanVars, hookCall, snapshot>>

\* getDumpedModules(): the caller keeps what it returns.
CallGetDumpedModules ==
    /\ snapshot' = [of |-> "dumpedModules", set |-> getDumpedModules(dumpedModules)]
    /\ UNCHANGED <<dumperVars, apiCall, appVars, scanVars, hookCall, readCall>>

\* getHookedFunctions(): the caller keeps what it returns.
CallGetHookedFunctions ==
    /\ snapshot' = [of |-> "hookedFunctions", set |-> getHookedFunctions(hookedFunctions)]
    /\ UNCHANGED <<dumperVars, apiCall, appVars, scanVars, hookCall, readCall>>

\* The caller adds an element to the Set it holds, or deletes one from it.  A Set that
\* is the object the class keeps changes for the class as well.
ChangeSnapshot ==
    /\ snapshot.of # "none"
    /\ \E x \in (IF snapshot.of = "dumpedModules" THEN {LibA, LibB} ELSE LoaderFunctions),
          add \in BOOLEAN :
          LET elements == IF add THEN snapshot.set.elements \cup {x}
                          ELSE snapshot.set.elements \ {x}
          IN /\ snapshot' = [snapshot EXCEPT !.set.elements = elements]
             /\ dumpedModules' =
                   IF snapshot.of = "dumpedModules" /\ snapshot.set.object = "internal"
                   THEN elements ELSE dumpedModules
             /\ hookedFunctions' =
                   IF snapshot.of = "hookedFunctions" /\ snapshot.set.object = "internal"
                   THEN elements ELSE hookedFunctions
             /\ UNCHANGED <<trace, skipped, apiCall, started, hostModules, interceptors,
                            libpath, invocations, timeouts, errors, scanVars, hookCall,
                            readCall>>

NextRead ==
    \/ CallDumpOf(EmptyImages)
    \/ CallHookLibraryLoader
    \/ CallIsModuleDumped
    \/ CallGetDumpedModules
    \/ CallGetHookedFunctions
    \/ ChangeSnapshot

\* The dumper and the hook as a caller of their public methods sees them.
SpecRead == Init /\ [][NextRead]_vars

(***************************************************************************)
(* Reading trace and apiCall.                                              *)
(***************************************************************************)
Messages(events) == SelectSeq(events, IsMessage)

Indices(events, type) == {i \in 1..Len(events) : events[i].type = type}

Count(events, type) == Cardinality(Indices(events, type))

Terminals(events) == {i \in 1..Len(events) : IsTerminal(events[i])}

\* The messages sent so far that carry the name.
MessagesFor(name) == IF name \in DOMAIN trace THEN Messages(trace[name]) ELSE <<>>

OneTerminalLast(msgs) ==
    /\ Cardinality(Terminals(msgs)) = 1
    /\ IsTerminal(msgs[Len(msgs)])

\* The latest direct call passed the validation, by the fields of its argument.
CallAccepted ==
    /\ apiCall.called
    /\ apiCall.module.name # ""
    /\ apiCall.module.base # NULL
    /\ apiCall.module.sizeType = "number"

CallRejected == apiCall.called /\ ~CallAccepted

\* The latest direct call found the name unprocessed and ran the extraction.
CallFresh == CallAccepted /\ apiCall.module.name \notin apiCall.before

CallChunks(pass) ==
    SelectSeq(apiCall.events, LAMBDA e : e.type = "module_chunk" /\ e.pass = pass)

CallReads == SelectSeq(apiCall.events, LAMBDA e : e.type = "readMemoryBytes")

\* The chunks start at 0, each is at most CHUNK_SIZE long and starts where the one
\* before it ends, all but the last are CHUNK_SIZE long, and they end at length.
Covers(chunks, length) ==
    /\ chunks # <<>>
    /\ chunks[1].offset = 0
    /\ \A i \in 1..Len(chunks) :
          /\ chunks[i].offset = (i - 1) * CHUNK_SIZE
          /\ chunks[i].chunk_size = Min(CHUNK_SIZE, length - chunks[i].offset)
          /\ chunks[i].chunk_size > 0
          /\ i < Len(chunks) => chunks[i + 1].offset = chunks[i].offset + chunks[i].chunk_size
    /\ chunks[Len(chunks)].offset + chunks[Len(chunks)].chunk_size = length

(***************************************************************************)
(* C1.  At-most-once: whatever the interleaving of the initial             *)
(* enumeration, the periodic scans and the deferred tasks of the loader    *)
(* hook, for every module name the module-info message is sent at most     *)
(* once, and at most one dumpModule call runs the extraction that sends    *)
(* its chunk and terminal messages.                                        *)
(***************************************************************************)
C1_AtMostOnce ==
    \A n \in ModuleNames :
        /\ Count(trace[n], "module_info") <= 1
        /\ Count(trace[n], "dumpedModules.add") <= 1
        /\ Cardinality(Terminals(trace[n])) <= 1
        /\ Cardinality({i \in Indices(trace[n], "module_chunk") :
                          trace[n][i].offset = 0 /\ trace[n][i].pass = "memory"}) <= 1

\* A deferred task called dumpModule for a library that was already dumped.
C1_Witness ==
    /\ LibA \in skipped
    /\ Count(trace[LibA], "module_info") = 1
    /\ LibB \in dumpedModules

(***************************************************************************)
(* C2.  For every module name the messages carrying it are, in order: one  *)
(* module-info, then module-chunk messages whose offsets do not decrease   *)
(* within the memory pass and within the file pass, then exactly one       *)
(* module-complete or module-error, and nothing after it.                  *)
(***************************************************************************)
C2_MessageOrder ==
    \A n \in ModuleNames :
        LET msgs == MessagesFor(n) IN
        msgs # <<>> =>
            /\ Len(msgs) >= 2
            /\ msgs[1].type = "module_info"
            /\ IsTerminal(msgs[Len(msgs)])
            /\ \A i \in 2..(Len(msgs) - 1) : msgs[i].type = "module_chunk"
            /\ \A i, j \in 2..(Len(msgs) - 1) :
                  (i < j /\ msgs[i].pass = msgs[j].pass) => msgs[i].offset <= msgs[j].offset
            /\ \A i, j \in 2..(Len(msgs) - 1) :
                  (i < j /\ msgs[i].pass = "file") => msgs[j].pass = "file"

\* A dump that sent chunks from memory and then, after the fallback, from the file.
C2_Witness ==
    \E n \in ModuleNames :
        /\ Cardinality({i \in Indices(trace[n], "module_chunk") : trace[n][i].pass = "memory"}) >= 1
        /\ Cardinality({i \in Indices(trace[n], "module_chunk") : trace[n][i].pass = "file"}) >= 2
        /\ Count(trace[n], "module_complete") = 1

C4_ClaimBeforeIO ==
    \A n \in ModuleNames :
        trace[n] # <<>> =>
            /\ n \in dumpedModules
            /\ trace[n][1] = SetAdd(n)
            /\ \A i \in 2..Len(trace[n]) :
                  /\ trace[n][i].type # "dumpedModules.add"
                  /\ IsMessage(trace[n][i]) \/ IsRead(trace[n][i])

\* A library claimed by a handler of the running script, with reads and messages.
C4_Witness ==
    /\ started
    /\ \E i \in 2..Len(trace[LibA]) : IsRead(trace[LibA][i])
    /\ \E i \in 2..Len(trace[LibA]) : trace[LibA][i].type = "File.readAllBytes"
    /\ LibB \in dumpedModules

C6_InvalidInputRejected ==
    (/\ apiCall.called
     /\ \/ apiCall.module.name = ""
        \/ apiCall.module.base = NULL
        \/ apiCall.module.sizeType # "number")
    => /\ ~apiCall.ret
       /\ dumpedModules = apiCall.before
       /\ apiCall.events = <<>>
       /\ (apiCall.module.name \in DOMAIN trace /\ apiCall.module.name \notin apiCall.before)
              => trace[apiCall.module.name] = <<>>

\* A call with a null base for a library name that is not processed.
C6_Witness ==
    /\ apiCall.called
    /\ apiCall.module.name = LibA
    /\ apiCall.module.base = NULL
    /\ apiCall.module.sizeType = "number"
    /\ LibA \notin dumpedModules
    /\ LibB \in dumpedModules

(***************************************************************************)
(* C7.  As claimed: a descriptor whose size is negative is rejected as     *)
(* invalid input: dumpModule returns false, the name is not added to       *)
(* dumpedModules, and neither module-info nor module-complete is sent.     *)
(***************************************************************************)
C7_NegativeSizeRejected ==
    (/\ apiCall.called
     /\ apiCall.module.sizeType = "number"
     /\ apiCall.module.size < 0)
    => /\ ~apiCall.ret
       /\ dumpedModules = apiCall.before
       /\ Count(apiCall.events, "module_info") = 0
       /\ Count(apiCall.events, "module_complete") = 0

C9_ChunkCoverage ==
    (/\ CallFresh
     /\ apiCall.module.size > 0
     /\ \A i \in 1..Len(CallReads) : CallReads[i].ok)
    => /\ Covers(CallChunks("memory"), apiCall.module.size)
       /\ Len(CallReads) = Len(CallChunks("memory"))
       /\ CallChunks("file") = <<>>
       /\ Count(apiCall.events, "File.readAllBytes") = 0
       /\ apiCall.events[Len(apiCall.events)] = sendModuleComplete(apiCall.module.name)
       /\ Count(apiCall.events, "module_complete") = 1
       /\ Count(apiCall.events, "module_error") = 0
       /\ apiCall.ret

\* A dump from memory of a size that is no multiple of the chunk size.
C9_Witness ==
    /\ CallFresh
    /\ apiCall.module.size = CHUNK_SIZE + 1
    /\ Len(CallChunks("memory")) = 2
    /\ apiCall.ret

(***************************************************************************)
(* C10.  File fallback: when the first failing memory read is at offset k  *)
(* and the descriptor has a non-empty path whose file reads as L > 0       *)
(* bytes, the chunks of all offsets below k were sent from memory, no      *)
(* memory read follows the failing one, and the file's chunks are sent     *)
(* with the offsets 0, CHUNK_SIZE, ... starting again at 0, each at most   *)
(* CHUNK_SIZE long, L bytes in total; module-complete follows and the call *)
(* returns true.                                                           *)
(***************************************************************************)
C10_FileFallback ==
    (/\ CallFresh
     /\ apiCall.module.path # ""
     /\ \E i \in 1..Len(CallReads) : ~CallReads[i].ok
     /\ \E i \in Indices(apiCall.events, "File.readAllBytes") :
           apiCall.events[i].ok /\ apiCall.events[i].byteLength > 0)
    => LET failed == CHOOSE i \in 1..Len(CallReads) : ~CallReads[i].ok
           k == CallReads[failed].offset
           read == CHOOSE i \in Indices(apiCall.events, "File.readAllBytes") : TRUE
           L == apiCall.events[read].byteLength
       IN /\ failed = Len(CallReads)
          /\ \A i \in 1..Len(CallReads) : CallReads[i].offset = (i - 1) * CHUNK_SIZE
          /\ Len(CallChunks("memory")) = failed - 1
          /\ \A i \in 1..Len(CallChunks("memory")) :
                CallChunks("memory")[i].offset = (i - 1) * CHUNK_SIZE
          /\ Count(apiCall.events, "File.readAllBytes") = 1
          /\ \A i \in Indices(apiCall.events, "readMemoryBytes") : i < read
          /\ Covers(CallChunks("file"), L)
          /\ \A i \in Indices(apiCall.events, "module_chunk") :
                apiCall.events[i].pass = "file" <=> i > read
          /\ apiCall.events[Len(apiCall.events)] = sendModuleComplete(apiCall.module.name)
          /\ Count(apiCall.events, "module_complete") = 1
          /\ Count(apiCall.events, "module_error") = 0
          /\ apiCall.ret

\* A fallback after one chunk from memory, with a file longer than one chunk.
C10_Witness ==
    /\ CallFresh
    /\ Len(CallChunks("memory")) = 1
    /\ Len(CallChunks("file")) = 2
    /\ CallChunks("file")[1].offset = 0
    /\ apiCall.module.size # apiCall.events[CHOOSE i \in Indices(apiCall.events, "File.readAllBytes") : TRUE].byteLength
    /\ apiCall.ret

(***************************************************************************)
(* C11.  Memory failure without path: when a memory read fails at offset k *)
(* and the descriptor has no path, the call sends a module-error citing    *)
(* offset k and returns false, sends no module-complete and no chunk at an *)
(* offset of k or more, and reads no file; with k = 0 the messages of the  *)
(* call are module-info, then module-error.                                *)
(***************************************************************************)
C11_MemoryFailureNoPath ==
    (/\ CallFresh
     /\ apiCall.module.path = ""
     /\ \E i \in 1..Len(CallReads) : ~CallReads[i].ok)
    => LET failed == CHOOSE i \in 1..Len(CallReads) : ~CallReads[i].ok
           k == CallReads[failed].offset
           msgs == Messages(apiCall.events)
       IN /\ ~apiCall.ret
          /\ Count(apiCall.events, "module_error") = 1
          /\ msgs[Len(msgs)] =
                sendModuleError(apiCall.module.name, [cause |-> "memory", offset |-> k])
          /\ Count(apiCall.events, "module_complete") = 0
          /\ \A i \in Indices(apiCall.events, "module_chunk") : apiCall.events[i].offset < k
          /\ Count(apiCall.events, "File.readAllBytes") = 0
          /\ failed = Len(CallReads)
          /\ k = 0 =>
                msgs = <<sendModuleInfo(apiCall.module.name, apiCall.module.base,
                                        apiCall.module.size, apiCall.module.path),
                         sendModuleError(apiCall.module.name,
                                         [cause |-> "memory", offset |-> 0])>>

\* A module without a path whose second chunk could not be read.
C11_Witness ==
    /\ CallFresh
    /\ apiCall.module.path = ""
    /\ Len(CallReads) = 2
    /\ ~CallReads[2].ok
    /\ CallReads[2].offset = CHUNK_SIZE
    /\ Len(CallChunks("memory")) = 1
    /\ ~apiCall.ret

(***************************************************************************)
(* C12.  File-fallback failure: when the fallback's File.readAllBytes      *)
(* throws or gives an empty buffer, the call sends exactly one             *)
(* module-error for the module, no module-complete and no chunk from the   *)
(* file, returns false, and the name stays in dumpedModules.               *)
(***************************************************************************)
C12_FileFallbackFailure ==
    (/\ CallFresh
     /\ \E i \in Indices(apiCall.events, "File.readAllBytes") :
           ~apiCall.events[i].ok \/ apiCall.events[i].byteLength = 0)
    => LET msgs == Messages(apiCall.events) IN
       /\ Count(apiCall.events, "module_error") = 1
       /\ msgs[Len(msgs)].type = "module_error"
       /\ msgs[Len(msgs)].module = apiCall.module.name
       /\ Count(apiCall.events, "module_complete") = 0
       /\ CallChunks("file") = <<>>
       /\ ~apiCall.ret
       /\ apiCall.module.name \in dumpedModules

\* A fallback whose file read gave nothing, after one chunk from memory.
C12_Witness ==
    /\ CallFresh
    /\ apiCall.module.path # ""
    /\ Len(CallChunks("memory")) = 1
    /\ Count(apiCall.events, "File.readAllBytes") = 1
    /\ Count(apiCall.events, "module_error") = 1
    /\ ~apiCall.ret
    /\ apiCall.module.name \in dumpedModules

(***************************************************************************)
(* C13.  Zero-size short-circuit: a call for a valid descriptor of size 0  *)
(* whose name is not yet processed sends module-info, then                 *)
(* module-complete, sends no module-chunk, reads neither memory nor file,  *)
(* returns true, and adds the name to dumpedModules.                       *)
(***************************************************************************)
C13_ZeroSize ==
    (CallFresh /\ apiCall.module.size = 0)
    => /\ Messages(apiCall.events) =
             <<sendModuleInfo(apiCall.module.name, apiCall.module.base, 0,
                              apiCall.module.path),
               sendModuleComplete(apiCall.module.name)>>
       /\ Count(apiCall.events, "module_chunk") = 0
       /\ \A i \in 1..Len(apiCall.events) : ~IsRead(apiCall.events[i])
       /\ apiCall.ret
       /\ apiCall.module.name \in dumpedModules
       /\ apiCall.module.name \notin apiCall.before

\* A call for the second library with size 0, after the first was dumped.
C13_Witness ==
    /\ CallFresh
    /\ apiCall.module.size = 0
    /\ apiCall.module.name = LibB
    /\ LibA \in apiCall.before
    /\ apiCall.ret
    /\ dumpedModules = {LibA, LibB}

(***************************************************************************)
(* Reading scanCall.                                                       *)
(***************************************************************************)
ScannedELF ==
    scanCall.called /\ scanCall.method = "scanMemoryForELF" /\ ~scanCall.enumThrows

\* The pass called Process.findModuleByAddress with the address.
Resolved(address) ==
    \E i \in Indices(scanCall.events, "findModuleByAddress") :
        scanCall.events[i].address = address

\* The names whose dump the pass started: dumpModule got past "Already processed".
Initiated ==
    {scanCall.events[i].module : i \in Indices(scanCall.events, "dumpedModules.add")}

(***************************************************************************)
(* C14.  Signature match: the scanner takes the four bytes at the start of *)
(* a region for a library image exactly when they are 7F 45 4C 46; for a   *)
(* region whose bytes differ from these in at least one position the pass  *)
(* resolves no module and starts no dump.                                  *)
(***************************************************************************)
C14_SignatureMatch ==
    ScannedELF =>
        \A i \in 1..Len(scanCall.ranges) :
            LET range == scanCall.ranges[i] IN
            /\ Resolved(range.base) <=> range.header = <<127, 69, 76, 70>>
            /\ range.header # <<127, 69, 76, 70>> =>
                  \A n \in ModuleNames : HostTable(n).base = range.base => n \notin Initiated

\* A pass over the regions of two unprocessed libraries: the first differs from the
\* magic number in its last byte only and is left alone, the second is dumped.
C14_Witness ==
    /\ ScannedELF
    /\ \E i \in 1..Len(scanCall.ranges) :
          /\ scanCall.ranges[i].base = BaseA
          /\ scanCall.ranges[i].header = <<127, 69, 76, 71>>
    /\ LibA \notin dumpedModules
    /\ ~Resolved(BaseA)
    /\ LibB \in Initiated
    /\ Resolved(BaseB)

(***************************************************************************)
(* C17.  As claimed: scanMemoryForELF returns the number of modules whose  *)
(* dump it started during the pass, whether the dump it started ended in   *)
(* module-complete or in module-error.                                     *)
(***************************************************************************)
C17_CountsInitiated ==
    ScannedELF => scanCall.count = Cardinality(Initiated)

(***************************************************************************)
(* C18.  As claimed: a library image that starts an executable region with *)
(* the magic number but is absent from the host's module list is found by  *)
(* scanMemoryForELF and handed to dumpModule: once a pass has probed its   *)
(* region, its name is in dumpedModules.                                   *)
(***************************************************************************)
C18_HiddenLibraryFound ==
    (/\ ScannedELF
     /\ \E i \in 1..Len(scanCall.ranges) :
           /\ scanCall.ranges[i].base = HostTable(LibH).base
           /\ scanCall.ranges[i].header = <<127, 69, 76, 70>>)
    => LibH \in dumpedModules

(***************************************************************************)
(* C15.  Idempotent hooking: over any sequence of hookLibraryLoader calls  *)
(* at most one interception is ever attached for a function name; once a   *)
(* call for the name has succeeded, every later call for it returns true   *)
(* and attaches nothing; the name is in hookedFunctions exactly when an    *)
(* interception is attached for it, and a call that fails to resolve or to *)
(* attach returns false and leaves hookedFunctions as it was.              *)
(***************************************************************************)
C15_IdempotentHooking ==
    /\ \A f \in LoaderFunctions :
          /\ interceptors[f] <= 1
          /\ f \in hookedFunctions <=> interceptors[f] = 1
    /\ hookCall.called =>
          LET f == hookCall.functionName IN
          /\ f \in hookCall.before =>
                /\ hookCall.ret
                /\ interceptors = hookCall.attachedBefore
                /\ hookedFunctions = hookCall.before
          /\ (f \notin hookCall.before /\ hookCall.export # "attached") =>
                /\ ~hookCall.ret
                /\ interceptors = hookCall.attachedBefore
                /\ hookedFunctions = hookCall.before
          /\ (f \notin hookCall.before /\ hookCall.export = "attached") =>
                /\ hookCall.ret
                /\ hookedFunctions = hookCall.before \cup {f}
                /\ interceptors = [hookCall.attachedBefore EXCEPT ![f] = 1]

\* A second call for a hooked function, while a first call for the other one failed.
C15_Witness ==
    /\ hookCall.called
    /\ hookCall.functionName = "dlopen"
    /\ "dlopen" \in hookCall.before
    /\ hookCall.ret
    /\ interceptors["dlopen"] = 1
    /\ "android_dlopen_ext" \notin hookedFunctions

(***************************************************************************)
(* C16.  As claimed: when invocations of hooked loader functions overlap,  *)
(* the exit probe of an invocation reads the path its own entry probe      *)
(* captured, never the path (or the unset path) of another invocation.     *)
(***************************************************************************)
C16_PathIsolation ==
    [][\A t \in Threads :
          (invocations[t].inside /\ ~invocations'[t].inside)
              => /\ libpath = invocations[t].captured
                 /\ \E retval \in LoaderReturns :
                       timeouts' = timeouts \cup onLeave(invocations[t].captured, retval)]_vars

(***************************************************************************)
(* C19.  Eventual pickup of ordinary loads: a shared library in the host's *)
(* module list, whenever it was loaded (before the start, between the      *)
(* initial enumeration and the hooks, through a loader that is not hooked, *)
(* or when the deferred task of the hook found nothing), is eventually in  *)
(* dumpedModules, provided the interval timer keeps firing and             *)
(* Process.enumerateModules does not fail in every tick.                   *)
(***************************************************************************)
C19_EventualPickup ==
    \A n \in {LibA, LibB} : (n \in hostModules) ~> (n \in dumpedModules)

\* Both libraries were loaded and dumped by the scans alone: no loader function is
\* hooked, and an enumeration has failed on the way.
C19_Witness ==
    /\ started
    /\ hookedFunctions = {}
    /\ {LibA, LibB} \subseteq hostModules
    /\ {LibA, LibB} \subseteq dumpedModules
    /\ errors > 0

(***************************************************************************)
(* C20.  Read-only operations: isModuleDumped, getDumpedModules and        *)
(* getHookedFunctions leave dumpedModules and hookedFunctions as they are  *)
(* and send no message, and neither does adding to or deleting from a Set  *)
(* they returned; so the names in dumpedModules stay the names dumpModule  *)
(* claimed and the names in hookedFunctions stay the functions with an     *)
(* interception, which is all that later isModuleDumped, dumpModule and    *)
(* hookLibraryLoader calls read.                                           *)
(***************************************************************************)
C20_ReadOnly ==
    /\ [][(readCall' # readCall \/ snapshot' # snapshot)
            => /\ UNCHANGED <<dumpedModules, hookedFunctions, interceptors, trace, errors>>
               /\ readCall' # readCall =>
                     readCall'.ret = (readCall'.moduleName \in dumpedModules)
               /\ (snapshot' # snapshot /\ snapshot.of = "none") =>
                     snapshot'.set.elements =
                        (IF snapshot'.of = "dumpedModules" THEN dumpedModules
                         ELSE hookedFunctions)]_vars
    /\ [](/\ dumpedModules =
                {n \in ModuleNames : Count(trace[n], "dumpedModules.add") > 0}
          /\ hookedFunctions = {f \in LoaderFunctions : interceptors[f] > 0})

\* The caller holds a Set it got for {liba.so}, has deleted liba.so from it and added
\* libb.so to it, and isModuleDumped(libb.so) still answers false.
C20_Witness ==
    /\ dumpedModules = {LibA}
    /\ snapshot.of = "dumpedModules"
    /\ snapshot.set.elements = {LibB}
    /\ readCall.called
    /\ readCall.moduleName = LibB
    /\ ~readCall.ret
    /\ hookedFunctions = {"dlopen"}

(***************************************************************************)
(* Reading the regions of scanCall.                                        *)
(***************************************************************************)
\* The probe of the region failed: its first bytes could not be read (the read gave
\* null or threw), or a later call of the probe threw.
ProbeFailed(range) == range.header = <<>> \/ range.throws # "none"

\* The listed modules that start at the address.
NamesAt(base) == {n \in hostModules : HostTable(n).base = base}

(***************************************************************************)
(* C21.  Region isolation in scanMemoryForELF: a failure while one region  *)
(* is probed (its first bytes unreadable, an exception in the resolution   *)
(* of the module or in the check of its name) sends no message, neither a  *)
(* generic error nor one for the module of that region, and starts no      *)
(* dump of it; every other region of the same enumeration, the later ones  *)
(* included, whose first bytes are the magic number is still resolved,     *)
(* and if it resolves to a listed library that is not yet processed, that  *)
(* library is dumped in this pass.                                         *)
(***************************************************************************)
C21_RegionIsolation ==
    ScannedELF =>
        /\ scanCall.sent = 0
        /\ \A i \in 1..Len(scanCall.ranges) :
              LET range == scanCall.ranges[i] IN
              IF ProbeFailed(range)
              THEN \A n \in NamesAt(range.base) :
                      /\ n \notin Initiated
                      /\ \A k \in 1..Len(scanCall.events) : scanCall.events[k].module # n
              ELSE range.header = <<127, 69, 76, 70>> =>
                      /\ Resolved(range.base)
                      /\ \A n \in NamesAt(range.base) :
                            (IncludesSo(n) /\ n \notin scanCall.before) => n \in Initiated

\* The resolution of the first library's region threw, and the pass went on to dump
\* the second library, whose region comes later in the enumeration.
C21_Witness ==
    /\ ScannedELF
    /\ \E i, j \in 1..Len(scanCall.ranges) :
          /\ i < j
          /\ scanCall.ranges[i].base = BaseA
          /\ scanCall.ranges[i].throws = "findModuleByAddress"
          /\ scanCall.ranges[j].base = BaseB
    /\ LibA \notin dumpedModules
    /\ LibB \in Initiated
    /\ scanCall.sent = 0

\* The latest direct call was a scanMemoryForELF whose Process.enumerateRanges threw.
ScanFailed ==
    scanCall.called /\ scanCall.method = "scanMemoryForELF" /\ scanCall.enumThrows

(***************************************************************************)
(* C22.  Enumeration failure in scanMemoryForELF: when                     *)
(* Process.enumerateRanges itself throws, the call sends exactly one       *)
(* generic error message, returns 0, starts no dump and leaves             *)
(* dumpedModules as it was; the failure leaves nothing behind but the      *)
(* message, so the next pass runs as any pass does: it probes the regions  *)
(* and dumps every listed, unprocessed library whose region matches.       *)
(***************************************************************************)
C22_EnumerationFailure ==
    /\ [](ScanFailed =>
             /\ scanCall.sent = 1
             /\ scanCall.count = 0
             /\ scanCall.events = <<>>
             /\ dumpedModules = scanCall.before)
    /\ [][errors' # errors =>
             /\ errors' = errors + 1
             /\ ScanFailed'
             /\ UNCHANGED <<dumperVars, apiCall, started, hostModules, hookVars,
                            hostHidden>>]_vars
    /\ [][(ScanFailed /\ ScannedELF' /\ scanCall' # scanCall) =>
             /\ scanCall'.before = dumpedModules
             /\ errors' = errors
             /\ \A i \in 1..Len(scanCall'.ranges) :
                   LET range == scanCall'.ranges[i] IN
                   (~ProbeFailed(range) /\ range.header = <<127, 69, 76, 70>>) =>
                       \A n \in NamesAt(range.base) :
                           (IncludesSo(n) /\ n \notin dumpedModules)
                               => n \in dumpedModules' /\ n \in Initiated']_vars

\* The enumeration failed in a pass that had a listed, unprocessed library to find,
\* after an earlier pass had dumped the other library.
C22_Witness ==
    /\ ScanFailed
    /\ scanCall.sent = 1
    /\ errors = 1
    /\ LibA \in hostModules \ dumpedModules
    /\ LibB \in dumpedModules
    /\ scanCall.before = {LibB}

\* The latest direct call was a scanForNewModules.
ScannedModules == scanCall.called /\ scanCall.method = "scanForNewModules"

(***************************************************************************)
(* C23.  As claimed: in scanForNewModules an exception raised while one    *)
(* module of the enumeration is handled is caught for that module only, so *)
(* every other listed library that is not yet processed, the later ones of *)
(* the enumeration included, is still handed to dumpModule in that pass;   *)
(* and a failure of Process.enumerateModules itself sends no message.      *)
(***************************************************************************)
C23_ModuleIsolation ==
    ScannedModules =>
        /\ ~scanCall.enumThrows =>
              \A i \in 1..Len(scanCall.modules) :
                  LET n == scanCall.modules[i].name IN
                  (n \notin scanCall.thrown /\ IncludesSo(n) /\ n \notin scanCall.before)
                      => n \in Initiated
        /\ scanCall.enumThrows =>
              /\ scanCall.sent = 0
              /\ scanCall.events = <<>>
              /\ dumpedModules = scanCall.before

(***************************************************************************)
(* Reading the steps of the loader hook.                                   *)
(***************************************************************************)
\* The names of the modules in a result of the host's resolution.
NamesOf(found) == {module.name : module \in found}

\* What a deferred task for the path and the handle has to dump: the module resolved
\* by the path or, if there is none, the module resolved by the handle's address.
ToDump(path, retval) ==
    IF findModuleByName(hostModules, path) # {}
    THEN NamesOf(findModuleByName(hostModules, path))
    ELSE NamesOf(findModuleByAddress(hostModules, retval))

\* The step is the exit probe of the invocation on thread t.
Leaves(t) == invocations[t].inside /\ ~invocations'[t].inside

\* The step is a probe: some invocation begins or ends.
ProbeStep == \E t \in Threads : invocations'[t] # invocations[t]

(***************************************************************************)
(* C24.  As claimed: an invocation of a hooked loader function leads to a  *)
(* dump only through a deferred task run in a later step than its exit     *)
(* probe, and only if its entry probe captured a path, the path contains   *)
(* '.so' and the return value is not null: no probe dumps or sends         *)
(* anything itself, an exit probe sets a task only for the path its own    *)
(* invocation captured, and sets none for an uncaptured path, a path       *)
(* without '.so' or a null return value; the task, when it runs, dumps the *)
(* module resolved by the path or, failing that, by the handle's address,  *)
(* and if neither resolves it dumps nothing and sends no message.          *)
(***************************************************************************)
C24_HookGating ==
    /\ [][ProbeStep => UNCHANGED <<dumperVars, errors>>]_vars
    /\ [][\A t \in Threads :
             Leaves(t) =>
                 LET path == invocations[t].captured IN
                 /\ \A task \in timeouts' \ timeouts :
                       /\ task.path = path
                       /\ path # NullPath
                       /\ IncludesSo(path)
                       /\ task.retval # NULL
                 /\ (path = NullPath \/ ~IncludesSo(path)) => timeouts' = timeouts]_vars
    /\ [][\A task \in timeouts \ timeouts' :
             /\ dumpedModules' = dumpedModules \cup ToDump(task.path, task.retval)
             /\ ToDump(task.path, task.retval) = {} =>
                   UNCHANGED <<dumperVars, errors>>
             /\ \A n \in ModuleNames \ ToDump(task.path, task.retval) :
                   trace'[n] = trace[n]]_vars

(***************************************************************************)
(* Reading the record of one name.                                         *)
(***************************************************************************)
\* The number of chunks of CHUNK_SIZE bytes that hold length bytes.
ChunksFor(length) ==
    IF length <= 0 THEN 0 ELSE (length + CHUNK_SIZE - 1) \div CHUNK_SIZE

\* The size module-info announced for the name.
AnnouncedSize(n) ==
    trace[n][CHOOSE i \in Indices(trace[n], "module_info") : TRUE].size

\* The length of the file read for the name (0: the file was not read, or not read
\* successfully).
FileLength(n) ==
    IF \E i \in Indices(trace[n], "File.readAllBytes") : trace[n][i].ok
    THEN trace[n][CHOOSE i \in Indices(trace[n], "File.readAllBytes") : trace[n][i].ok].byteLength
    ELSE 0

PassChunks(n, pass) ==
    Cardinality({i \in Indices(trace[n], "module_chunk") : trace[n][i].pass = pass})

(***************************************************************************)
(* C25.  Termination of a claimed dump: once dumpModule has added a name   *)
(* to dumpedModules, the call sends at most ceil(size / CHUNK_SIZE) chunks *)
(* from memory and at most ceil(fileLength / CHUNK_SIZE) chunks from the   *)
(* file and ends with module-complete or module-error; no scan, probe or   *)
(* deferred task runs before that: in every state the script can be seen   *)
(* in, every name that was claimed has its one terminal message, and it is *)
(* the last thing recorded for the name.                                   *)
(***************************************************************************)
C25_ClaimedDumpTerminates ==
    \A n \in ModuleNames :
        (n \in dumpedModules \/ trace[n] # <<>>) =>
            /\ Count(trace[n], "dumpedModules.add") = 1
            /\ Count(trace[n], "module_info") = 1
            /\ PassChunks(n, "memory") <= ChunksFor(AnnouncedSize(n))
            /\ PassChunks(n, "file") <= ChunksFor(FileLength(n))
            /\ Len(trace[n]) <= 2 + 2 * ChunksFor(AnnouncedSize(n)) + 1
                                  + ChunksFor(FileLength(n)) + 1
            /\ Cardinality(Terminals(trace[n])) = 1
            /\ IsTerminal(trace[n][Len(trace[n])])

\* A dump that went through the memory pass and the whole file pass and completed,
\* seen while a loader call is in progress and a deferred task is waiting.
C25_Witness ==
    /\ PassChunks(LibA, "memory") = 1
    /\ PassChunks(LibA, "file") = ChunksFor(FileLength(LibA))
    /\ FileLength(LibA) = 2 * CHUNK_SIZE
    /\ trace[LibA][Len(trace[LibA])].type = "module_complete"
    /\ \E t \in Threads : invocations[t].inside
    /\ timeouts # {}
    /\ LibB \in dumpedModules

(***************************************************************************)
(* C26.  Return value matches the terminal message: a dumpModule call that *)
(* passes the validation and finds the name unprocessed returns true if    *)
(* and only if it sent module-complete during the call, and returns false  *)
(* if and only if it sent module-error during the call; the `return false` *)
(* at the end of dumpModuleData, which sends no terminal message, is never *)
(* reached.                                                                *)
(***************************************************************************)
C26_ReturnMatchesTerminal ==
    CallFresh =>
        /\ apiCall.ret <=> Count(apiCall.events, "module_complete") > 0
        /\ ~apiCall.ret <=> Count(apiCall.events, "module_error") > 0
        /\ Terminals(apiCall.events) # {}
        /\ Count(apiCall.events, "module_complete") + Count(apiCall.events, "module_error") = 1

\* A call whose memory read failed in the second chunk, so that the flag was cleared,
\* and which still returned true with module-complete, through the file.
C26_Witness ==
    /\ CallFresh
    /\ apiCall.module.size = CHUNK_SIZE + 1
    /\ Len(CallReads) = 2
    /\ ~CallReads[2].ok
    /\ Count(apiCall.events, "module_complete") = 1
    /\ Count(apiCall.events, "module_error") = 0
    /\ apiCall.ret

(***************************************************************************)
(* C27.  As claimed: in every reachable state every name in dumpedModules  *)
(* contains '.so', whichever way the module came to dumpModule: the        *)
(* initial enumeration, scanForNewModules, scanMemoryForELF or the         *)
(* deferred task of the loader hook.                                       *)
(***************************************************************************)
C27_OnlyLibrariesClaimed ==
    \A n \in dumpedModules : IncludesSo(n)

=============================================================================
